---------------------------- MODULE Spec2Model ----------------------------
(***************************************************************************)
(* Model of the mempool trading bot of src/main.rs (TradingBot).           *)
(*                                                                         *)
(* Integer widths.  TLC's integers are 32 bits wide, so the three widths   *)
(* of the program (U256, u128, the 53-bit significand of f64) are scaled   *)
(* down, keeping their order  F64Bits < U128Bits < U256Bits :              *)
(*     U256  -> U256Bits bits,  u128 -> U128Bits bits,                     *)
(*     f64   -> a binary float with F64Bits significand bits, rounding     *)
(*              to nearest, ties to even, as IEEE 754 does.               *)
(* Calldata is modelled byte for byte (sequences over 0..255) with the     *)
(* program's own offsets and selectors.                                    *)
(***************************************************************************)
EXTENDS Integers, Sequences, FiniteSets, TLC

(* ------------------------------ bounds -------------------------------- *)

U256Bits == 26
U128Bits == 20
F64Bits == 14
MaxCandidates == 3
MaxElapsed == 1
NumTasks == 3

Pow2(n) == 2 ^ n

U256Max == Pow2(U256Bits) - 1
U128Max == Pow2(U128Bits) - 1

(* --------------------------- byte sequences --------------------------- *)

RECURSIVE Zeros(_)
Zeros(n) == IF n = 0 THEN << >> ELSE <<0>> \o Zeros(n - 1)

\* Rust s[a..b]: zero-based, half open.
Slice(s, a, b) == SubSeq(s, a + 1, b)

\* <[u8]>::starts_with
StartsWith(s, p) == Len(s) >= Len(p) /\ SubSeq(s, 1, Len(p)) = p

\* The 32-byte big-endian ABI word of a number below 2^24.
Word(v) == Zeros(29) \o << (v \div 65536) % 256, (v \div 256) % 256, v % 256 >>

\* The ABI word of an address: left padded to 32 bytes.
AddrWord(a) == Zeros(12) \o a

\* U256::from_big_endian on a 32-byte word whose value is below 2^24.
RECURSIVE BigEndianUpTo(_, _)
BigEndianUpTo(w, i) == IF i = 0 THEN 0 ELSE 256 * BigEndianUpTo(w, i - 1) + w[i]

FromBigEndian(w) == BigEndianUpTo(w, Len(w))

\* U256::as_usize succeeds iff the value is below 2^64: the upper 24 bytes
\* of the big-endian word are zero.  Otherwise it panics.
FitsUsize(w) == \A i \in 1..24 : w[i] = 0

(* ----------------------------- addresses ------------------------------ *)

UNISWAP_V2_ROUTER ==
    << 122, 37, 13, 86, 48, 180, 207, 83, 151, 57,
       223, 44, 93, 172, 180, 198, 89, 242, 72, 141 >>

WETH_ADDRESS ==
    << 192, 42, 170, 57, 178, 35, 254, 141, 10, 14,
       92, 79, 39, 234, 217, 8, 60, 117, 108, 194 >>

\* The tracked token (TradingBot.token_address, a run parameter).
token_address ==
    << 17, 17, 17, 17, 17, 17, 17, 17, 17, 17,
       17, 17, 17, 17, 17, 17, 17, 17, 17, 17 >>

\* wallet.address()
wallet_address ==
    << 34, 34, 34, 34, 34, 34, 34, 34, 34, 34,
       34, 34, 34, 34, 34, 34, 34, 34, 34, 34 >>

SWAP_ETH_FOR_TOKENS == << 127, 243, 106, 181 >>
SWAP_TOKENS_FOR_TOKENS == << 56, 237, 23, 57 >>

(* --------------------------- is_token_buy ----------------------------- *)

None == [kind |-> "None"]
Some(v) == [kind |-> "Some", value |-> v]
Panic == [kind |-> "Panic"]

PathOffset(input) == IF StartsWith(input, SWAP_ETH_FOR_TOKENS) THEN 164 ELSE 196

LastToken(input) == Slice(input, Len(input) - 20, Len(input))

\* A classification that does not look at the destination.
is_token_buy_any_destination(t) ==
    IF StartsWith(t.input, SWAP_ETH_FOR_TOKENS)
       \/ StartsWith(t.input, SWAP_TOKENS_FOR_TOKENS)
    THEN LET path_offset == PathOffset(t.input) IN
         IF Len(t.input) < path_offset + 32 THEN Panic
         ELSE IF ~FitsUsize(Slice(t.input, path_offset, path_offset + 32)) THEN Panic
         ELSE IF LastToken(t.input) = token_address THEN Some(t.value)
         ELSE None
    ELSE None

\* TradingBot::is_token_buy.  The result is None, Some(buy_amount), or Panic
\* (an out-of-range slice index or an overflowing as_usize).
is_token_buy(t) ==
    IF t.to # UNISWAP_V2_ROUTER THEN None
    ELSE IF StartsWith(t.input, SWAP_ETH_FOR_TOKENS)
            \/ StartsWith(t.input, SWAP_TOKENS_FOR_TOKENS)
    THEN LET path_offset == PathOffset(t.input) IN
         IF Len(t.input) < path_offset + 32 THEN Panic
         ELSE IF ~FitsUsize(Slice(t.input, path_offset, path_offset + 32)) THEN Panic
         ELSE IF LastToken(t.input) = token_address THEN Some(t.value)
         ELSE None
    ELSE None

(* ------------------- f64 arithmetic of execute_sell -------------------- *)

\* a / b rounded to the nearest integer, ties to the even one.
RoundDivEven(a, b) ==
    LET q == a \div b
        r == a % b
    IN  IF 2 * r < b THEN q
        ELSE IF 2 * r > b THEN q + 1
        ELSE IF q % 2 = 0 THEN q ELSE q + 1

\* For n >= d > 0: the e >= 0 with 2^e <= n/d < 2^(e+1).
RECURSIVE ExpUp(_, _, _)
ExpUp(n, d, e) == IF n >= d * Pow2(e + 1) THEN ExpUp(n, d, e + 1) ELSE e

\* For 0 < n < d: the j >= 1 with 2^(-j) <= n/d < 2^(-j+1).
RECURSIVE ExpDown(_, _, _)
ExpDown(n, d, j) == IF n * Pow2(j) >= d THEN j ELSE ExpDown(n, d, j + 1)

\* The one element of a singleton.  { F(v) : v \in {e} } applies F to the
\* value of e, evaluating e once.
Only(S) == CHOOSE x \in S : TRUE

\* The e with 2^e <= n/d < 2^(e+1), for n, d > 0.
Exponent(n, d) == IF n >= d THEN ExpUp(n, d, 0) ELSE 0 - ExpDown(n, d, 1)

\* n/d rounded to a multiple of 2^s, as the pair <<m, j>> standing for
\* m / 2^j.
RoundToUnit(n, d, s) ==
    IF s >= 0
    THEN << RoundDivEven(n, d * Pow2(s)) * Pow2(s), 0 >>
    ELSE << RoundDivEven(n * Pow2(0 - s), d), 0 - s >>

\* The f64 nearest to the rational n/d (n >= 0, d > 0): F64Bits significant
\* bits, ties to even.
F64Nearest(n, d) ==
    IF n = 0 THEN <<0, 0>>
    ELSE Only({ RoundToUnit(n, d, s) : s \in { Exponent(n, d) - F64Bits + 1 } })

F64Round(x, y) == Only({ F64Nearest(n, d) : n \in {x}, d \in {y} })

\* The integer part of the float <<m, j>>.
F64Trunc(f) == f[1] \div Pow2(f[2])

\* `x as f64` for an unsigned integer x, and the f64 product of two
\* integer-valued floats: rounding an integer gives an integer-valued float.
F64FromInt(x) == F64Trunc(F64Round(x, 1))
F64Mul(a, b) == F64Trunc(F64Round(a * b, 1))

\* The f64 quotient of two integer-valued floats.
F64Div(a, b) == F64Round(a, b)

\* `f as u128`: truncation towards zero, saturating at u128::MAX.
F64AsU128(f) == Only({ IF t > U128Max THEN U128Max ELSE t : t \in { F64Trunc(f) } })

\* Line 100: (buy_amount.as_u128() as f64 * sell_percentage / 100.0) as u128,
\* for buy_amount <= u128::MAX and an integer-valued sell_percentage.
SellAmount(buy_amount, pct) ==
    Only({ F64AsU128(q)
           : q \in { F64Div(m, 100)
                     : m \in { F64Mul(x, pct)
                               : x \in { F64FromInt(buy_amount) } } } })

\* U256::as_u128 panics unless the value fits in 128 bits.
FitsU128(v) == v <= U128Max

\* Line 103: Instant::now().elapsed() is the age of an Instant that was just
\* created, so its whole seconds are 0.
InstantNowElapsedSecs == 0
DeadlineOffset == 300

\* Lines 132 and 144: the comparison with the target.
TargetReachedStrict(total, target) == total > target
TargetReached(total, target) == total >= target

(* ------------------------- candidate calldata ------------------------- *)

other_token ==
    << 51, 51, 51, 51, 51, 51, 51, 51, 51, 51,
       51, 51, 51, 51, 51, 51, 51, 51, 51, 51 >>

other_contract ==
    << 68, 68, 68, 68, 68, 68, 68, 68, 68, 68,
       68, 68, 68, 68, 68, 68, 68, 68, 68, 68 >>

\* An address below 2^64 (its first 12 bytes are zero).
low_token == Zeros(19) \o <<9>>

RECURSIVE PathWords(_)
PathWords(path) ==
    IF path = << >> THEN << >> ELSE AddrWord(Head(path)) \o PathWords(Tail(path))

\* ABI encoding of (uint amountOutMin, address[] path, address to, uint deadline)
\* behind the first selector.  The head is 4 words; the path's data starts
\* `gap` bytes after it (gap = 0 is the canonical encoding), and `trailing`
\* bytes follow the path.
EthCall(gap, amountOutMin, path, to, deadline, trailing) ==
    SWAP_ETH_FOR_TOKENS \o Word(amountOutMin) \o Word(128 + gap) \o AddrWord(to)
        \o Word(deadline) \o Zeros(gap) \o Word(Len(path)) \o PathWords(path)
        \o trailing

\* ABI encoding of (uint amountIn, uint amountOutMin, address[] path,
\* address to, uint deadline) behind the second selector; a head of 5 words.
TokenCall(gap, amountIn, amountOutMin, path, to, deadline, trailing) ==
    SWAP_TOKENS_FOR_TOKENS \o Word(amountIn) \o Word(amountOutMin)
        \o Word(160 + gap) \o AddrWord(to) \o Word(deadline) \o Zeros(gap)
        \o Word(Len(path)) \o PathWords(path) \o trailing

Tx(to, input, value) == [to |-> to, input |-> input, value |-> value]

NoTx == Tx(<< >>, << >>, 0)

\* The candidates of the monitoring loop's runs.
MainTxs ==
    { Tx(UNISWAP_V2_ROUTER,
         EthCall(32, 0, <<WETH_ADDRESS, token_address>>, other_contract, 7, << >>), v)
        : v \in {100, 1000, U128Max + 1} }
    \cup
    { Tx(UNISWAP_V2_ROUTER,
         TokenCall(32, 100, 0, <<other_token, token_address>>, other_contract, 7, << >>), 0),
      Tx(UNISWAP_V2_ROUTER,
         EthCall(32, 0, <<WETH_ADDRESS, other_token>>, other_contract, 7, << >>), 100),
      Tx(other_contract,
         EthCall(32, 0, <<WETH_ADDRESS, token_address>>, other_contract, 7, << >>), 100),
      Tx(UNISWAP_V2_ROUTER, SWAP_ETH_FOR_TOKENS, 100),
      Tx(UNISWAP_V2_ROUTER, << >>, 100),
      Tx(UNISWAP_V2_ROUTER, << 127, 243, 106 >>, 100),
      Tx(UNISWAP_V2_ROUTER,
         << 1, 2, 3, 4 >>
         \o Tail(Tail(Tail(Tail(
              EthCall(32, 0, <<WETH_ADDRESS, token_address>>, other_contract, 7, << >>))))),
         100) }

Percentages == {10, 50, 100}
Targets == {100, 120}

(* ------------------------------- state -------------------------------- *)

VARIABLES
    pc,              \* position of run / monitor_mempool / execute_sell
    elapsed,         \* seconds since TradingBot::new took Instant::now()
    expiry_seconds,  \* expiry_time = construction instant + expiry_seconds
    sell_percentage,
    target_eth,
    total_sold,      \* the U256 behind Arc<Mutex<..>>
    consumed,        \* stream items taken by pending_txs.next()
    tx,              \* the transaction of the current iteration
    buy,             \* the result of is_token_buy for tx
    matched,         \* history: candidates for which is_token_buy gave Some
    sell_amount,
    swap_call,       \* the tokens given to encode_function_data
    sells,           \* history: every sell attempt and how it ended
    out,             \* the lines printed so far
    err,             \* the fault that ended the run, if any
    lock,            \* holder of the total_sold mutex (0: free)
    t_pc,            \* concurrent updaters: position of each task
    t_amount,        \*   its sell_amount
    t_before,        \*   the total it read
    hist             \*   the updates in the order they were written

vars == << pc, elapsed, expiry_seconds, sell_percentage, target_eth, total_sold,
           consumed, tx, buy, matched, sell_amount, swap_call, sells, out, err,
           lock, t_pc, t_amount, t_before, hist >>

loopVars == << pc, elapsed, consumed, tx, buy, matched, sell_amount, swap_call, sells, err >>
cfgVars == << expiry_seconds, sell_percentage, target_eth >>
taskVars == << lock, t_pc, t_amount, t_before, hist >>

Tasks == 1..NumTasks

NoCall == [amountIn |-> 0, amountOutMin |-> 0, path |-> << >>,
           to |-> << >>, deadline |-> 0]

(* --------------------------- printed lines ---------------------------- *)

SoldLine(amount, total) == [line |-> "Sold", amount |-> amount, total |-> total]
TargetLine(total) == [line |-> "Target reached", amount |-> 0, total |-> total]
ExpiredLine(total) == [line |-> "Time expired", amount |-> 0, total |-> total]

Attempt(amount, outcome) == [amount |-> amount, outcome |-> outcome]

(* ---------------------- run and monitor_mempool ----------------------- *)

\* An error that is recorded while the loop goes on with the next candidate.
FailContinue(what) ==
    /\ pc' = "next"
    /\ err' = what

\* `?` on an Err: the error leaves monitor_mempool, run and main.
Fail(what) ==
    /\ pc' = "exit_err"
    /\ err' = what

\* The clock.  Only the comparison with expiry_time matters, so it stops at
\* MaxElapsed.
Tick ==
    /\ pc \notin {"exit_ok", "exit_err", "panic", "tasks"}
    /\ elapsed < MaxElapsed
    /\ elapsed' = elapsed + 1
    /\ UNCHANGED << pc, consumed, tx, buy, sell_amount, swap_call, sells, err,
                    total_sold, out >>
    /\ UNCHANGED cfgVars /\ UNCHANGED taskVars /\ UNCHANGED matched

\* Line 57: subscribe_pending_txs().await?
Subscribe ==
    /\ pc = "subscribe"
    /\ \E ok \in BOOLEAN :
         IF ok THEN pc' = "next" /\ err' = err ELSE Fail("subscribe")
    /\ UNCHANGED << elapsed, consumed, tx, buy, sell_amount, swap_call, sells,
                    total_sold, out >>
    /\ UNCHANGED cfgVars /\ UNCHANGED taskVars /\ UNCHANGED matched

\* Line 59: pending_txs.next().await yields Some(tx_hash).
StreamNext ==
    /\ pc = "next"
    /\ consumed < MaxCandidates
    /\ consumed' = consumed + 1
    /\ pc' = "expiry"
    /\ tx' = NoTx
    /\ buy' = None
    /\ UNCHANGED << elapsed, sell_amount, swap_call, sells, err, total_sold, out >>
    /\ UNCHANGED cfgVars /\ UNCHANGED taskVars /\ UNCHANGED matched

\* Line 59: pending_txs.next().await yields None: the loop ends, Ok(()).
StreamEnd ==
    /\ pc = "next"
    /\ pc' = "report"
    /\ UNCHANGED << elapsed, consumed, tx, buy, sell_amount, swap_call, sells,
                    err, total_sold, out >>
    /\ UNCHANGED cfgVars /\ UNCHANGED taskVars /\ UNCHANGED matched

\* A loop that never looks at the clock.
CheckExpiryNever ==
    /\ pc = "expiry"
    /\ pc' = "get_transaction"
    /\ UNCHANGED << elapsed, consumed, tx, buy, sell_amount, swap_call, sells,
                    err, total_sold, out >>
    /\ UNCHANGED cfgVars /\ UNCHANGED taskVars /\ UNCHANGED matched

\* A loop that also breaks once the target is reached.
CheckExpiryOrTarget ==
    /\ pc = "expiry"
    /\ pc' = IF elapsed >= expiry_seconds \/ TargetReached(total_sold, target_eth)
             THEN "report" ELSE "get_transaction"
    /\ UNCHANGED << elapsed, consumed, tx, buy, sell_amount, swap_call, sells,
                    err, total_sold, out >>
    /\ UNCHANGED cfgVars /\ UNCHANGED taskVars /\ UNCHANGED matched

\* A loop that breaks only after the deadline, not at it.
CheckExpiryStrict ==
    /\ pc = "expiry"
    /\ pc' = IF elapsed > expiry_seconds THEN "report" ELSE "get_transaction"
    /\ UNCHANGED << elapsed, consumed, tx, buy, sell_amount, swap_call, sells,
                    err, total_sold, out >>
    /\ UNCHANGED cfgVars /\ UNCHANGED taskVars /\ UNCHANGED matched

\* Lines 60-62: if Instant::now() >= self.expiry_time { break; }
CheckExpiry ==
    /\ pc = "expiry"
    /\ pc' = IF elapsed >= expiry_seconds THEN "report" ELSE "get_transaction"
    /\ UNCHANGED << elapsed, consumed, tx, buy, sell_amount, swap_call, sells,
                    err, total_sold, out >>
    /\ UNCHANGED cfgVars /\ UNCHANGED taskVars /\ UNCHANGED matched

\* Line 64: get_transaction(tx_hash).await? is Err, Ok(None) or Ok(Some(tx)).
GetTransaction ==
    /\ pc = "get_transaction"
    /\ \E r \in {[kind |-> "Err"], [kind |-> "None"]}
                 \cup {[kind |-> "Some", tx |-> t] : t \in MainTxs} :
         IF r.kind = "Err" THEN Fail("get_transaction") /\ tx' = tx
         ELSE IF r.kind = "None" THEN pc' = "next" /\ err' = err /\ tx' = tx
         ELSE pc' = "is_token_buy" /\ err' = err /\ tx' = r.tx
    /\ UNCHANGED << elapsed, consumed, buy, sell_amount, swap_call, sells,
                    total_sold, out >>
    /\ UNCHANGED cfgVars /\ UNCHANGED taskVars /\ UNCHANGED matched

\* Line 65: if let Some(buy_amount) = self.is_token_buy(&tx)
IsTokenBuy ==
    /\ pc = "is_token_buy"
    /\ buy' = is_token_buy(tx)
    /\ matched' = IF buy'.kind = "Some" THEN matched + 1 ELSE matched
    /\ pc' = IF buy'.kind = "Panic" THEN "panic"
             ELSE IF buy'.kind = "Some" THEN "execute_sell"
             ELSE "next"
    /\ UNCHANGED << elapsed, consumed, tx, sell_amount, swap_call, sells, err,
                    total_sold, out >>
    /\ UNCHANGED cfgVars /\ UNCHANGED taskVars

(* ---------------------------- execute_sell ---------------------------- *)

\* Lines 100-122: the sell amount, the deadline, the encoded call and the
\* transaction request.  as_u128 panics on a buy_amount of 2^128 or more.
ExecuteSell ==
    /\ pc = "execute_sell"
    /\ IF ~FitsU128(buy.value)
       THEN /\ pc' = "panic"
            /\ UNCHANGED << sell_amount, swap_call >>
       ELSE \E amount \in { SellAmount(buy.value, sell_percentage) } :
            /\ pc' = "sign"
            /\ sell_amount' = amount
            /\ swap_call' = [amountIn |-> amount,
                             amountOutMin |-> 0,
                             path |-> << token_address, WETH_ADDRESS >>,
                             to |-> wallet_address,
                             deadline |-> InstantNowElapsedSecs + DeadlineOffset]
    /\ UNCHANGED << elapsed, consumed, tx, buy, sells, err, total_sold, out >>
    /\ UNCHANGED cfgVars /\ UNCHANGED taskVars /\ UNCHANGED matched

\* Line 124: wallet.sign_transaction(&tx).await?
SignTransaction ==
    /\ pc = "sign"
    /\ \E ok \in BOOLEAN :
         IF ok THEN pc' = "send" /\ err' = err /\ sells' = sells
         ELSE Fail("sign") /\ sells' = Append(sells, Attempt(sell_amount, "sign failed"))
    /\ UNCHANGED << elapsed, consumed, tx, buy, sell_amount, swap_call,
                    total_sold, out >>
    /\ UNCHANGED cfgVars /\ UNCHANGED taskVars /\ UNCHANGED matched

\* Line 125: provider.send_raw_transaction(pending_tx).await?
SendRawTransaction ==
    /\ pc = "send"
    /\ \E ok \in BOOLEAN :
         IF ok THEN pc' = "receipt" /\ err' = err /\ sells' = sells
         ELSE Fail("send") /\ sells' = Append(sells, Attempt(sell_amount, "send failed"))
    /\ UNCHANGED << elapsed, consumed, tx, buy, sell_amount, swap_call,
                    total_sold, out >>
    /\ UNCHANGED cfgVars /\ UNCHANGED taskVars /\ UNCHANGED matched

\* Lines 128-134 with the lock held: add, print, compare, print.
\* U256 += panics on overflow.
AddAndCheck ==
    IF total_sold + sell_amount > U256Max
    THEN /\ pc' = "panic"
         /\ UNCHANGED << total_sold, out >>
    ELSE /\ pc' = "next"
         /\ total_sold' = total_sold + sell_amount
         /\ out' = out \o << SoldLine(sell_amount, total_sold') >>
                       \o (IF TargetReached(total_sold', target_eth)
                           THEN << TargetLine(total_sold') >> ELSE << >>)

\* A receipt lookup that counts the sell whether or not a receipt was found.
GetTransactionReceiptAlways ==
    /\ pc = "receipt"
    /\ \E r \in {"Err", "None", "Some"} :
         /\ sells' = Append(sells, Attempt(sell_amount,
                        IF r = "Err" THEN "receipt failed"
                        ELSE IF r = "None" THEN "no receipt" ELSE "confirmed"))
         /\ IF r = "Err" THEN Fail("receipt") /\ UNCHANGED << total_sold, out >>
            ELSE AddAndCheck /\ err' = err
    /\ UNCHANGED << elapsed, consumed, tx, buy, sell_amount, swap_call >>
    /\ UNCHANGED cfgVars /\ UNCHANGED taskVars /\ UNCHANGED matched

\* A receipt lookup that submits the sell again when it finds no receipt.
GetTransactionReceiptResend ==
    /\ pc = "receipt"
    /\ \E r \in {"Err", "None", "Some"} :
         /\ sells' = Append(sells, Attempt(sell_amount,
                        IF r = "Err" THEN "receipt failed"
                        ELSE IF r = "None" THEN "no receipt" ELSE "confirmed"))
         /\ IF r = "Err" THEN Fail("receipt") /\ UNCHANGED << total_sold, out >>
            ELSE IF r = "None"
            THEN pc' = "sign" /\ err' = err /\ UNCHANGED << total_sold, out >>
            ELSE AddAndCheck /\ err' = err
    /\ UNCHANGED << elapsed, consumed, tx, buy, sell_amount, swap_call >>
    /\ UNCHANGED cfgVars /\ UNCHANGED taskVars /\ UNCHANGED matched

\* Lines 127-137: get_transaction_receipt(..).await? is Err, Ok(None) or
\* Ok(Some(receipt)); only Some(receipt) updates total_sold.
GetTransactionReceipt ==
    /\ pc = "receipt"
    /\ \E r \in {"Err", "None", "Some"} :
         /\ sells' = Append(sells, Attempt(sell_amount,
                        IF r = "Err" THEN "receipt failed"
                        ELSE IF r = "None" THEN "no receipt" ELSE "confirmed"))
         /\ IF r = "Err" THEN Fail("receipt") /\ UNCHANGED << total_sold, out >>
            ELSE IF r = "None"
            THEN pc' = "next" /\ err' = err /\ UNCHANGED << total_sold, out >>
            ELSE AddAndCheck /\ err' = err
    /\ UNCHANGED << elapsed, consumed, tx, buy, sell_amount, swap_call >>
    /\ UNCHANGED cfgVars /\ UNCHANGED taskVars /\ UNCHANGED matched

\* Lines 143-148: after monitor_mempool returned Ok(()).
RunReport ==
    /\ pc = "report"
    /\ pc' = "exit_ok"
    /\ out' = IF ~TargetReached(total_sold, target_eth)
              THEN Append(out, ExpiredLine(total_sold)) ELSE out
    /\ UNCHANGED << elapsed, consumed, tx, buy, sell_amount, swap_call, sells,
                    err, total_sold >>
    /\ UNCHANGED cfgVars /\ UNCHANGED taskVars /\ UNCHANGED matched

(* --------------------------- the whole run ---------------------------- *)

\* TradingBot::new and main's parameters.
Init ==
    /\ pc = "subscribe"
    /\ elapsed = 0
    /\ expiry_seconds \in {0, MaxElapsed}
    /\ sell_percentage \in Percentages
    /\ target_eth \in Targets
    /\ total_sold = 0
    /\ consumed = 0
    /\ tx = NoTx
    /\ buy = None
    /\ matched = 0
    /\ sell_amount = 0
    /\ swap_call = NoCall
    /\ sells = << >>
    /\ out = << >>
    /\ err = ""
    /\ lock = 0
    /\ t_pc = [t \in Tasks |-> "off"]
    /\ t_amount = [t \in Tasks |-> 0]
    /\ t_before = [t \in Tasks |-> 0]
    /\ hist = << >>

\* The steps the program takes by itself.
ProgramStep ==
    \/ Subscribe
    \/ CheckExpiry
    \/ GetTransaction
    \/ IsTokenBuy
    \/ ExecuteSell
    \/ SignTransaction
    \/ SendRawTransaction
    \/ GetTransactionReceipt
    \/ RunReport

\* What the pending-transaction stream does: deliver a hash, or end.
StreamStep == StreamNext \/ StreamEnd

\* What the network does with a sell that was broadcast and had no receipt
\* yet when line 127 looked it up: it includes it in a block.  Like the
\* clock, it is followed only while the run is going on.
NetworkConfirms ==
    /\ pc \notin {"exit_ok", "exit_err", "panic", "tasks"}
    /\ \E i \in 1..Len(sells) :
         /\ sells[i].outcome = "no receipt"
         /\ sells' = [sells EXCEPT ![i].outcome = "confirmed later"]
    /\ UNCHANGED << pc, elapsed, consumed, tx, buy, matched, sell_amount, swap_call,
                    err, total_sold, out >>
    /\ UNCHANGED cfgVars /\ UNCHANGED taskVars

Next == Tick \/ ProgramStep \/ StreamStep \/ NetworkConfirms

Spec == Init /\ [][Next]_vars

\* The runtime keeps running the task and every call to the node or the
\* wallet returns, but nothing obliges the network to deliver a pending
\* transaction or to close the stream.
FairSpec == Spec /\ WF_vars(ProgramStep) /\ WF_vars(Tick)

(* ------------------ is_token_buy on its own inputs -------------------- *)

Prefixes(input) == { SubSeq(input, 1, n) : n \in 0..Len(input) }

RouterSwap == << WETH_ADDRESS, token_address >>
OtherSwap == << WETH_ADDRESS, other_token >>

\* Calldata of both recognized functions: canonical and with the path one
\* word further on, ending in the tracked token or not, with and without
\* bytes after the path, and an unrecognized selector.
BaseInputs ==
    { EthCall(g, 5, p, other_contract, 7, << >>)
        : g \in {0, 32}, p \in {RouterSwap, OtherSwap, << low_token, token_address >>} }
    \cup
    { TokenCall(g, 77, 5, p, other_contract, 7, << >>)
        : g \in {0, 32}, p \in {<< other_token, token_address >>, OtherSwap,
                                << low_token, token_address >>} }
    \cup
    { EthCall(32, 5, OtherSwap, other_contract, 7, AddrWord(token_address)),
      EthCall(32, 5, RouterSwap, other_contract, 7, Zeros(32)),
      TokenCall(32, 77, 5, OtherSwap, other_contract, 7, AddrWord(token_address)),
      << 1, 2, 3, 4 >> \o Zeros(28) \o token_address }

ClassifyTxs ==
    { Tx(UNISWAP_V2_ROUTER, i, v)
        : i \in UNION { Prefixes(b) : b \in BaseInputs }, v \in {0, 55} }
    \cup
    { Tx(to, b, 55) : to \in {other_contract, << >>}, b \in BaseInputs }

InitClassify ==
    /\ pc = "is_token_buy"
    /\ elapsed = 0
    /\ expiry_seconds = MaxElapsed
    /\ sell_percentage = 10
    /\ target_eth = 100
    /\ total_sold = 0
    /\ consumed = 1
    /\ tx \in ClassifyTxs
    /\ buy = None
    /\ matched = 0
    /\ sell_amount = 0
    /\ swap_call = NoCall
    /\ sells = << >>
    /\ out = << >>
    /\ err = ""
    /\ lock = 0
    /\ t_pc = [t \in Tasks |-> "off"]
    /\ t_amount = [t \in Tasks |-> 0]
    /\ t_before = [t \in Tasks |-> 0]
    /\ hist = << >>

SpecClassify == InitClassify /\ [][IsTokenBuy]_vars

(* ------------------ execute_sell's sell amount alone ------------------ *)

BuyAmounts ==
    (0..20) \cup {99, 100, 101, 999, 1000, 1001}
    \cup { Pow2(F64Bits) + d : d \in 0..4 } \cup { Pow2(F64Bits) - 1 }
    \cup { U128Max - 1, U128Max, U128Max + 1, U256Max }

SellPercentages == {1, 10, 33, 50, 100}

InitSell ==
    /\ pc = "execute_sell"
    /\ elapsed = 0
    /\ expiry_seconds = MaxElapsed
    /\ sell_percentage \in SellPercentages
    /\ target_eth = 100
    /\ total_sold = 0
    /\ consumed = 1
    /\ tx = NoTx
    /\ buy \in { Some(b) : b \in BuyAmounts }
    /\ matched = 1
    /\ sell_amount = 0
    /\ swap_call = NoCall
    /\ sells = << >>
    /\ out = << >>
    /\ err = ""
    /\ lock = 0
    /\ t_pc = [t \in Tasks |-> "off"]
    /\ t_amount = [t \in Tasks |-> 0]
    /\ t_before = [t \in Tasks |-> 0]
    /\ hist = << >>

SpecSell == InitSell /\ [][ExecuteSell]_vars

(* ---------------------------------------------------------------------- *)
(* The contract ABI's reading of the calldata, which the claims about     *)
(* classification are stated against: the head holds one word per         *)
(* parameter, the path's word holds the offset of its data, the data is   *)
(* a length word followed by one word per address.                        *)
(* ---------------------------------------------------------------------- *)

Recognized(input) ==
    StartsWith(input, SWAP_ETH_FOR_TOKENS) \/ StartsWith(input, SWAP_TOKENS_FOR_TOKENS)

AbiHeadWords(input) == IF StartsWith(input, SWAP_ETH_FOR_TOKENS) THEN 4 ELSE 5
AbiPathParam(input) == IF StartsWith(input, SWAP_ETH_FOR_TOKENS) THEN 1 ELSE 2

AbiWordAt(input, at) == Slice(input, at, at + 32)

AbiPathData(input) ==
    4 + FromBigEndian(AbiWordAt(input, 4 + 32 * AbiPathParam(input)))

AbiPathLen(input) == FromBigEndian(AbiWordAt(input, AbiPathData(input)))

AbiWellFormed(input) ==
    /\ Recognized(input)
    /\ Len(input) >= 4 + 32 * AbiHeadWords(input)
    /\ Len(input) >= AbiPathData(input) + 32
    /\ AbiPathLen(input) >= 1
    /\ Len(input) >= AbiPathData(input) + 32 + 32 * AbiPathLen(input)

AbiPathLast(input) ==
    LET at == AbiPathData(input) + 32 * AbiPathLen(input) IN
    Slice(input, at + 12, at + 32)

AbiAmountIn(input) == FromBigEndian(AbiWordAt(input, 4))

Classified == pc # "is_token_buy" /\ tx # NoTx

(* C1: a transaction to the router whose calldata starts with a recognized
   selector but is shorter than that function's layout is classified as
   "no match" (None), never with a fault.
   The code indexes input[path_offset .. path_offset + 32] without a length
   check and panics. *)
C1_ShortCalldataIsNoMatch ==
    (/\ Classified
     /\ tx.to = UNISWAP_V2_ROUTER
     /\ Recognized(tx.input)
     /\ ~AbiWellFormed(tx.input))
    => buy.kind = "None"

(* C9: the buy amount of a match is the swap's input: the attached value for
   the native-currency variant, the calldata's amountIn for the
   token-to-token variant.
   The code returns tx.value for both. *)
C9_BuyAmountIsSwapInput ==
    (Classified /\ buy.kind = "Some")
    => buy.value = IF StartsWith(tx.input, SWAP_ETH_FOR_TOKENS)
                   THEN tx.value ELSE AbiAmountIn(tx.input)

(* C10: a match is returned only if the last entry of the path encoded in
   the calldata is the tracked token.
   The code compares the last 20 bytes of the calldata, whatever they are. *)
C10_MatchOnlyIfPathEndsInToken ==
    (Classified /\ buy.kind = "Some")
    => (AbiWellFormed(tx.input) /\ AbiPathLast(tx.input) = token_address)

\* The floor of b * p / 100, computed without leaving 32 bits.
ExactSell(b, p) == (b \div 100) * p + ((b % 100) * p) \div 100

(* C2: for every buyAmount of the 256-bit range and every fraction
   0 < p <= 100, execute_sell computes floor(buyAmount * p / 100) exactly
   and without fault.
   The code panics in as_u128 above 128 bits and rounds through f64. *)
C2_SellAmountExact ==
    (pc # "execute_sell" /\ buy.kind = "Some" /\ tx = NoTx /\ consumed = 1)
    => (pc = "sign" /\ sell_amount = ExactSell(buy.value, sell_percentage))

(* ---------------------------------------------------------------------- *)
(* Lines 128-135 under concurrent callers.  total_sold is an               *)
(* Arc<Mutex<U256>>: each task takes the lock, reads the total, stores     *)
(* total + sell_amount, compares with the target, and drops the guard at   *)
(* the end of the block.                                                   *)
(* ---------------------------------------------------------------------- *)

ConcAmounts == {0, 50, 100}

mainVarsOff == << pc, elapsed, consumed, tx, buy, matched, sell_amount, swap_call, sells,
                   err >>

\* A task reaches line 128 with its sell_amount.
TaskCall(t) ==
    /\ t_pc[t] = "idle"
    /\ \E a \in ConcAmounts : t_amount' = [t_amount EXCEPT ![t] = a]
    /\ t_pc' = [t_pc EXCEPT ![t] = "lock"]
    /\ UNCHANGED << lock, t_before, hist, total_sold, out >>
    /\ UNCHANGED mainVarsOff /\ UNCHANGED cfgVars

\* A lock that never makes a caller wait.
TaskLockNoMutex(t) ==
    /\ t_pc[t] = "lock"
    /\ lock' = t
    /\ t_pc' = [t_pc EXCEPT ![t] = "read"]
    /\ UNCHANGED << t_amount, t_before, hist, total_sold, out >>
    /\ UNCHANGED mainVarsOff /\ UNCHANGED cfgVars

\* Line 128: self.total_sold.lock().await completes only while no other
\* guard is alive.
TaskLock(t) ==
    /\ t_pc[t] = "lock"
    /\ lock = 0
    /\ lock' = t
    /\ t_pc' = [t_pc EXCEPT ![t] = "read"]
    /\ UNCHANGED << t_amount, t_before, hist, total_sold, out >>
    /\ UNCHANGED mainVarsOff /\ UNCHANGED cfgVars

\* Line 129, first half: load *total_sold.
TaskRead(t) ==
    /\ t_pc[t] = "read"
    /\ t_before' = [t_before EXCEPT ![t] = total_sold]
    /\ t_pc' = [t_pc EXCEPT ![t] = "add"]
    /\ UNCHANGED << lock, t_amount, hist, total_sold, out >>
    /\ UNCHANGED mainVarsOff /\ UNCHANGED cfgVars

\* Lines 129-130: store the sum and print it.
TaskAdd(t) ==
    /\ t_pc[t] = "add"
    /\ total_sold' = t_before[t] + t_amount[t]
    /\ hist' = Append(hist, [task |-> t, before |-> t_before[t],
                             amount |-> t_amount[t], after |-> total_sold'])
    /\ out' = Append(out, SoldLine(t_amount[t], total_sold'))
    /\ t_pc' = [t_pc EXCEPT ![t] = "compare"]
    /\ UNCHANGED << lock, t_amount, t_before >>
    /\ UNCHANGED mainVarsOff /\ UNCHANGED cfgVars

\* Lines 132-135: compare, print, and drop the guard.
TaskCompare(t) ==
    /\ t_pc[t] = "compare"
    /\ out' = IF TargetReached(total_sold, target_eth)
              THEN Append(out, TargetLine(total_sold)) ELSE out
    /\ lock' = IF lock = t THEN 0 ELSE lock
    /\ t_pc' = [t_pc EXCEPT ![t] = "done"]
    /\ UNCHANGED << t_amount, t_before, hist, total_sold >>
    /\ UNCHANGED mainVarsOff /\ UNCHANGED cfgVars

InitConc ==
    /\ pc = "tasks"
    /\ elapsed = 0
    /\ expiry_seconds = MaxElapsed
    /\ sell_percentage = 50
    /\ target_eth \in Targets
    /\ total_sold = 0
    /\ consumed = 0
    /\ tx = NoTx
    /\ buy = None
    /\ matched = 0
    /\ sell_amount = 0
    /\ swap_call = NoCall
    /\ sells = << >>
    /\ out = << >>
    /\ err = ""
    /\ lock = 0
    /\ t_pc = [t \in Tasks |-> "idle"]
    /\ t_amount = [t \in Tasks |-> 0]
    /\ t_before = [t \in Tasks |-> 0]
    /\ hist = << >>

NextConc ==
    \E t \in Tasks :
        \/ TaskCall(t)
        \/ TaskLock(t)
        \/ TaskRead(t)
        \/ TaskAdd(t)
        \/ TaskCompare(t)

SpecConc == InitConc /\ [][NextConc]_vars

RECURSIVE SumAmounts(_)
SumAmounts(h) == IF h = << >> THEN 0 ELSE Head(h).amount + SumAmounts(Tail(h))

InFlight == { t \in Tasks : t_pc[t] \in {"read", "add", "compare"} }

(* C3: the update "read total, add amount, compare to target" is
   indivisible.  At most one update is between taking the lock and dropping
   it; every update's "before" total is the "after" total of the update
   written just before it (0 for the first), so no two updates start from
   the same point of the history; and the total is the exact sum of the
   amounts added. *)
C3_UpdatesSerialized ==
    /\ Cardinality(InFlight) <= 1
    /\ \A i \in 1..Len(hist) :
         /\ hist[i].before = IF i = 1 THEN 0 ELSE hist[i - 1].after
         /\ hist[i].after = hist[i].before + hist[i].amount
    /\ total_sold = SumAmounts(hist)
    /\ \A t \in InFlight : lock = t

\* One update is complete, a second task holds the lock with the total it
\* read, and a third waits at the lock.
C3_Witness ==
    /\ pc = "tasks"
    /\ Len(hist) >= 1
    /\ \E t1, t2 \in Tasks :
         /\ t_pc[t1] = "add" /\ t_before[t1] > 0 /\ t_amount[t1] > 0
         /\ t_pc[t2] = "lock" /\ t_amount[t2] > 0

(* ------------------------ claims about the run ------------------------ *)

RECURSIVE SumConfirmed(_)
SumConfirmed(a) ==
    IF a = << >> THEN 0
    ELSE (IF Head(a).outcome = "confirmed" THEN Head(a).amount ELSE 0)
         + SumConfirmed(Tail(a))

(* C4: total_sold starts at zero, never decreases, and in every state is
   the sum of the amounts of the sells whose signing, submission and
   receipt lookup all succeeded; any other attempt leaves it unchanged. *)
C4_TotalIsSumOfConfirmedSells ==
    /\ total_sold = 0
    /\ [](total_sold = SumConfirmed(sells))
    /\ [][total_sold' >= total_sold]_vars

\* A confirmed sell, a sell without receipt and a sell that failed to sign.
C4_Witness ==
    /\ Len(sells) = 3
    /\ sells[1].outcome = "confirmed" /\ sells[1].amount > 0
    /\ sells[2].outcome = "no receipt" /\ sells[2].amount > 0
    /\ sells[3].outcome = "sign failed"
    /\ total_sold = sells[1].amount

Expired == elapsed >= expiry_seconds

(* C5, as stated: once the deadline has passed with no candidate consumed,
   the waiting loop reaches its terminal state with nothing sold, whether
   or not a candidate is delivered.
   The loop is suspended in pending_txs.next() there: StreamNext and
   StreamEnd are both possible, but neither is the program's to take. *)
C5_ExpiredLoopTerminates ==
    (pc = "next" /\ consumed = 0 /\ Expired)
        ~> (pc = "exit_ok" /\ sells = << >> /\ total_sold = 0)

(* C5, amended: if the deadline has passed when the first candidate is
   delivered, or the stream ends before any candidate, the loop terminates
   without fetching the candidate, with no sell and a total of zero. *)
C5_ExpiredLoopTerminatesOnDelivery ==
    ((pc = "expiry" /\ consumed = 1 /\ Expired) \/ (pc = "report" /\ consumed = 0))
        ~> (pc = "exit_ok" /\ tx = NoTx /\ sells = << >> /\ total_sold = 0)

\* The deadline had passed from the start; one candidate was delivered.
C5_Witness ==
    /\ pc = "exit_ok"
    /\ expiry_seconds = 0
    /\ consumed = 1
    /\ sells = << >>
    /\ total_sold = 0

(* C6: every update prints the new total, and "Target reached" follows it
   if and only if that total is at or above the target. *)
C6_TargetSignalledIffReached ==
    \A i \in 1..Len(out) :
        /\ out[i].line = "Sold" =>
             ((i < Len(out) /\ out[i + 1] = TargetLine(out[i].total))
                <=> out[i].total >= target_eth)
        /\ out[i].line = "Target reached" => (i > 1 /\ out[i - 1].line = "Sold")

\* Three buys of 100 at 50 percent against a target of 120.
C6_Witness ==
    /\ sell_percentage = 50
    /\ target_eth = 120
    /\ out = << SoldLine(50, 50), SoldLine(50, 100), SoldLine(50, 150),
                TargetLine(150) >>

Executing == {"execute_sell", "sign", "send", "receipt"}

(* C7: once a matched buy is being executed, the controller goes back to
   monitoring whatever the outcome.
   The code returns the error of signing, submission or receipt lookup out
   of the loop. *)
C7_ExecutingReturnsToMonitoring ==
    [][(pc \in Executing) => (pc' \in (Executing \cup {"next"}))]_vars

(* C8: however the run ends, the amount sold so far is reported at exit.
   The code prints it only after monitor_mempool returned Ok and only
   while the total is below the target. *)
C8_TotalReportedAtExit ==
    pc \in {"exit_ok", "exit_err", "panic"}
    => (out # << >> /\ out[Len(out)] = ExpiredLine(total_sold))

(* ------------------- claims about sells in flight --------------------- *)

\* Sells that were broadcast and are not confirmed: the one whose receipt is
\* being looked up, and those whose lookup found no receipt.
Unconfirmed ==
    Cardinality({ i \in 1..Len(sells) : sells[i].outcome = "no receipt" })
    + (IF pc = "receipt" THEN 1 ELSE 0)

(* C11: at most one sell is in flight at any time, and no further candidate
   is consumed while a broadcast sell is still unconfirmed.
   The code looks the receipt up once (line 127); when the lookup finds
   none, the loop takes the next candidate with the sell still pending. *)
C11_OneSellInFlight ==
    /\ Unconfirmed <= 1
    /\ pc \in {"expiry", "get_transaction", "is_token_buy"} => Unconfirmed = 0

\* The chain's clock when the run starts: not before the genesis block.
ChainTimeAtStart == 1438269973

\* block.timestamp, in seconds.
ChainTime == ChainTimeAtStart + elapsed

(* C12: the deadline of every sell call that was built is later than the
   chain time.
   The code computes it from Instant::now().elapsed(), the age of an
   instant taken in the same expression, so it is 300. *)
C12_DeadlineInFuture ==
    pc \in {"sign", "send", "receipt"} => swap_call.deadline > ChainTime

(* ------------------------ claims about faults ------------------------- *)

\* A sell attempt that ended in a fault of signing, submission or lookup.
Faulted == \E i \in 1..Len(sells) :
              sells[i].outcome \in {"sign failed", "send failed", "receipt failed"}

(* C13: a fault of the candidate lookup, of signing, of submission or of the
   receipt lookup ends the run with that error: from then on no candidate
   is consumed, no sell is attempted and the total does not change. *)
C13_FaultIsFatal ==
    /\ []((err # "" \/ Faulted) => pc = "exit_err")
    /\ [][(err' # err) => (err = "" /\ pc' = "exit_err")]_vars
    /\ [][(pc = "exit_err") =>
            (/\ pc' = "exit_err"
             /\ consumed' = consumed
             /\ Len(sells') = Len(sells)
             /\ total_sold' = total_sold
             /\ out' = out)]_vars

\* The receipt lookup of the second sell failed with candidates left.
C13_Witness ==
    /\ pc = "exit_err"
    /\ err = "receipt"
    /\ consumed = 2
    /\ Len(sells) = 2
    /\ sells[2].outcome = "receipt failed"

(* ------------------------ claims about the loop ----------------------- *)

Reached == TargetReached(total_sold, target_eth)

(* C14: with the target reached the loop goes on as before: a candidate
   delivered before the deadline is fetched, a match is handed to
   execute_sell, which builds and signs the sell, and the loop is left only
   when the deadline has passed at the check or the stream has ended. *)
C14_TargetDoesNotHalt ==
    /\ [][(Reached /\ pc = "expiry" /\ ~Expired /\ pc' # pc)
            => pc' = "get_transaction"]_vars
    /\ [][(Reached /\ pc = "is_token_buy" /\ buy'.kind = "Some")
            => pc' = "execute_sell"]_vars
    /\ [][(Reached /\ pc = "execute_sell" /\ FitsU128(buy.value) /\ pc' # pc)
            => pc' = "sign"]_vars
    /\ [][(Reached /\ pc' = "report" /\ pc # "report")
            => (pc = "next" \/ (pc = "expiry" /\ Expired))]_vars

\* A sell was counted after the target had been signalled.
C14_Witness ==
    \E i, j \in 1..Len(out) :
        /\ i < j
        /\ out[i].line = "Target reached"
        /\ out[j].line = "Sold"
        /\ out[j].total > out[i].total

\* The amounts of the sells the network confirmed, at the lookup or later.
RECURSIVE SumMined(_)
SumMined(a) ==
    IF a = << >> THEN 0
    ELSE (IF Head(a).outcome \in {"confirmed", "confirmed later"}
          THEN Head(a).amount ELSE 0)
         + SumMined(Tail(a))

(* C15: when the run ends normally, total_sold counts every sell that was
   broadcast and confirmed by the network while the run was going on.
   The code asks for the receipt once, right after the broadcast (line
   127); a sell without receipt at that moment is never looked up again. *)
C15_ConfirmedSellsCounted ==
    pc = "exit_ok" => total_sold = SumMined(sells)

(* ---------------------- claims about candidates ----------------------- *)

\* What a step of the loop leaves alone when it has no effect.
NoEffect ==
    /\ Len(sells') = Len(sells)
    /\ total_sold' = total_sold
    /\ out' = out
    /\ err' = err
    /\ matched' = matched

(* C16: a lookup that finds no transaction, and a transaction whose
   destination is not the router or whose calldata does not start with a
   recognized selector (empty and shorter than four bytes included), is
   skipped: the loop waits for the next candidate, without fault, without
   sell and with total_sold unchanged. *)
C16_NonBuySkipped ==
    /\ [][(pc = "get_transaction" /\ pc' \notin {pc, "exit_err"} /\ tx' = NoTx)
            => (pc' = "next" /\ NoEffect)]_vars
    /\ [][(/\ pc = "is_token_buy"
           /\ pc' # pc
           /\ (tx.to # UNISWAP_V2_ROUTER \/ ~Recognized(tx.input)))
            => (pc' = "next" /\ buy' = None /\ NoEffect)]_vars

\* Three candidates were skipped: the last one has three bytes of calldata.
C16_Witness ==
    /\ pc = "next"
    /\ consumed = 3
    /\ tx.to = UNISWAP_V2_ROUTER
    /\ Len(tx.input) = 3
    /\ buy = None
    /\ matched = 0
    /\ sells = << >>
    /\ total_sold = 0
    /\ err = ""

\* The stages of one iteration after the deadline check.
Cycle == {"get_transaction", "is_token_buy"} \cup Executing

(* C17: the deadline is looked at once per candidate, first thing; if it
   has passed the loop stops without fetching the candidate; a fetch starts
   only from a check that found the deadline not passed; and once the
   check is behind it, an iteration is not stopped by the deadline. *)
C17_DeadlineCheckedOncePerIteration ==
    /\ [][(pc' = "expiry" /\ pc # "expiry")
            => (pc = "next" /\ consumed' = consumed + 1)]_vars
    /\ [][(pc = "expiry" /\ pc' # pc)
            => (/\ pc' = (IF Expired THEN "report" ELSE "get_transaction")
                /\ tx' = NoTx
                /\ NoEffect)]_vars
    /\ [][(pc' \in Cycle /\ pc \notin Cycle) => (pc = "expiry" /\ ~Expired)]_vars
    /\ [][(pc \in Cycle /\ pc' # pc)
            => pc' \in (Cycle \cup {"next", "exit_err", "panic"})]_vars

\* The first candidate passed the check before the deadline; the deadline
\* has passed since, and its sell has been broadcast.
C17_Witness ==
    /\ pc = "receipt"
    /\ consumed = 1
    /\ expiry_seconds > 0
    /\ Expired
    /\ sell_amount > 0

\* The canonical encoding: the path's data directly behind the head, and
\* nothing behind the path.
AbiCanonical(input) ==
    /\ AbiWellFormed(input)
    /\ AbiPathData(input) = 4 + 32 * AbiHeadWords(input)
    /\ Len(input) = AbiPathData(input) + 32 + 32 * AbiPathLen(input)

(* C18: a canonically encoded call of a recognized function to the router
   whose path ends in the tracked token is a match, and the word read at
   offset 164 or 196 is the path's length word.
   In the canonical encoding the length word is at 132 or 164; the word
   the code reads is the first address of the path, and as_usize panics on
   an address of more than 64 bits. *)
C18_CanonicalBuyIsMatched ==
    (/\ Classified
     /\ tx.to = UNISWAP_V2_ROUTER
     /\ AbiCanonical(tx.input)
     /\ AbiPathLast(tx.input) = token_address)
    => (/\ buy = Some(tx.value)
        /\ AbiWordAt(tx.input, PathOffset(tx.input))
             = AbiWordAt(tx.input, AbiPathData(tx.input)))

\* The sells handed to signing and submission so far: those that ended, and
\* the one under way.
SellsStarted ==
    Len(sells) + (IF pc \in {"sign", "send", "receipt"} THEN 1 ELSE 0)

(* C19: there are never more sell submissions than candidates classified
   as a match, nor more matches than candidates consumed; candidates are
   consumed one at a time, each is classified once, and a sell is started
   only for the match found for the candidate of the same iteration. *)
C19_OneSellPerMatch ==
    /\ [](SellsStarted <= matched /\ matched <= consumed)
    /\ [][(consumed' # consumed) => (pc = "next" /\ consumed' = consumed + 1)]_vars
    /\ [][(matched' # matched)
            => (pc = "is_token_buy" /\ matched' = matched + 1)]_vars
    /\ [][(pc' = "sign" /\ pc # "sign")
            => (pc = "execute_sell" /\ buy.kind = "Some" /\ buy = is_token_buy(tx))]_vars

\* Three candidates, two of them matches, each with one submitted sell.
C19_Witness ==
    /\ pc = "next"
    /\ consumed = 3
    /\ matched = 2
    /\ Len(sells) = 2
    /\ sells[1].outcome = "confirmed"
    /\ sells[2].outcome = "no receipt"
    /\ buy = None

=============================================================================
